---- MODULE Spec2Model ----
(***************************************************************************)
(* A model of rlgym-ppo's ExperienceBuffer (ppo/experience_buffer.py) and  *)
(* of the Learner's epoch loop and checkpointing (learner.py).             *)
(*                                                                         *)
(* A transition is identified by the order in which it was submitted: the  *)
(* value a transition carries in each of its nine fields is its id, so     *)
(* that the content and the alignment of the nine sequences can be read    *)
(* off the buffer.                                                         *)
(***************************************************************************)
EXTENDS Integers, Sequences, FiniteSets, TLC

\* ------------------------------------------------------------------ bounds

\* Largest capacity (max_size) a buffer is constructed with.
MaxSize == 3
\* Largest number of transitions in one submit_experience call.
MaxSubmit == 2
\* Largest number of transitions submitted over a run of the buffer model.
MaxTotal == 4
\* Largest seed a buffer is constructed with.
MaxSeed == 1
\* Largest batch_size passed to get_all_batches_shuffled.
MaxBatchSize == 3
\* Number of states of the abstract pseudo-random generator.
RngMod == 16
\* Largest number of draws other code makes from the process-wide generator.
MaxOther == 2
\* The count of get_all_batches_shuffled calls stops at this number.
MaxCalls == 2

\* Largest ts_per_iteration (timesteps per epoch) of a Learner.
MaxTsPerEpoch == 2
\* Largest save_every_ts of a Learner.
MaxSaveEvery == 3
\* The timestep_limit of a Learner.
MaxLimit == 3
\* Largest n_checkpoints_to_keep of a Learner.
MaxKeep == 2
\* Largest number of epochs of training between two calls of save or load.
MaxProgress == 2

Devices == {"cpu", "cuda:0"}

VARIABLES
  ctor,        \* the arguments the buffer was constructed with
  buf,         \* the ExperienceBuffer
  twin,        \* a second ExperienceBuffer constructed with the same seed
  fresh,       \* a buffer constructed when buf was last constructed or cleared
  cleared,     \* whether clear() has been called on buf
  np_random,   \* the process-wide generator (np.random)
  n_other,     \* draws other code has made from the process-wide generator
  calls,       \* get_all_batches_shuffled calls since construction or clear,
               \* counted up to MaxCalls
  ret,         \* the last call on buf and what it returned
  twin_ret,    \* the same for twin
  fresh_ret,   \* the same for fresh
  submitted,   \* ids of the transitions submitted since construction or clear
  next_id      \* the id of the next transition

VARIABLES
  cfg,                       \* the Learner's construction arguments
  pc,                        \* where learn() is
  epoch,                     \* self.epoch
  cumulative_timesteps,      \* self.agent.cumulative_timesteps
  average_reward,            \* self.agent.average_reward: <<>> is None
  cumulative_model_updates,  \* self.ppo_learner.cumulative_model_updates
  return_stats,              \* self.return_stats
  wandb_run,                 \* self.wandb_run: <<>> is None
  fs,                        \* the directories of checkpoints_save_folder
  collected,                 \* what collect_timesteps returned this epoch
  ppo_report,                \* what ppo_learner.learn returned this epoch
  sink,                      \* the reports dispatched to report_metrics
  exc,                       \* the exception in flight, "none" when none
  failure,                   \* the step that raised and what it raised
  first_epoch,               \* self.epoch when learn() was called
  cleanups,                  \* how often each part of cleanup() has run
  last_ckpt,                 \* the last Checkpoint step: epoch, saved, key
  snap,                      \* per directory, the state save() was called in
  saved_keys,                \* the keys save() has been called with
  increasing,                \* whether each key was above all earlier ones
  last_op,                   \* the last of save, load and training
  progress                   \* epochs trained since the last save or load

learnerVars == <<cfg, pc, epoch, cumulative_timesteps, average_reward,
                 cumulative_model_updates, return_stats, wandb_run, fs,
                 collected, ppo_report, sink, exc, failure, first_epoch,
                 cleanups, last_ckpt, snap, saved_keys, increasing, last_op,
                 progress>>

\* What only the epoch loop changes.
loopVars == <<pc, collected, ppo_report, sink, exc, failure, first_epoch,
              cleanups, last_ckpt>>

bufVars == <<ctor, buf, twin, fresh, cleared, np_random, n_other, calls, ret,
             twin_ret,
             fresh_ret, submitted, next_id>>

\* The variables of the buffer model other than the Learner's own buffer.
twinVars == <<ctor, twin, fresh, cleared, n_other, calls, ret, twin_ret,
              fresh_ret>>

vars == <<bufVars, learnerVars>>

\* ------------------------------------------------------------- sequences

Range(s) == {s[i] : i \in 1..Len(s)}

\* Python's s[start:] for 0 <= start.
DropFirst(s, start) == SubSeq(s, start + 1, Len(s))

\* The last n elements of s (all of s when it has fewer).
LastN(s, n) == IF Len(s) <= n THEN s ELSE SubSeq(s, Len(s) - n + 1, Len(s))

\* x[i], x[j] = x[j], x[i]
Swap(x, i, j) == [x EXCEPT ![i] = x[j], ![j] = x[i]]

\* Fancy indexing t[indices] (1-based here).
Index(t, indices) == [k \in 1..Len(indices) |-> t[indices[k]]]

Min(a, b) == IF a <= b THEN a ELSE b

\* ------------------------------------------- the pseudo-random generator

\* np.random.RandomState(seed): the generator's state after seeding.
RandomState(seed) == (7 * seed + 1) % RngMod

\* One step of the generator.
RngNext(s) == (5 * s + 3) % RngMod

\* rk_interval(max, state): a draw in 0..max, and the state after it.
rk_interval(max, s) ==
  [value |-> (RngNext(s) \div 2) % (max + 1), rng |-> RngNext(s)]

\* RandomState.shuffle(x): for i in reversed(range(1, n)): j = interval(i);
\* swap x[i], x[j].  Positions are 1-based here.
RECURSIVE ShuffleFrom(_, _, _)
ShuffleFrom(x, s, i) ==
  IF i < 2 THEN [list |-> x, rng |-> s]
  ELSE LET d == rk_interval(i - 1, s)
       IN  ShuffleFrom(Swap(x, i, d.value + 1), d.rng, i - 1)

RngShuffle(x, s) == ShuffleFrom(x, s, Len(x))

\* ------------------------------------------------------ ExperienceBuffer

ExperienceBuffer_init(max_size, seed, device) ==
  [device      |-> device,
   seed        |-> seed,
   states      |-> <<>>,
   actions     |-> <<>>,
   log_probs   |-> <<>>,
   rewards     |-> <<>>,
   next_states |-> <<>>,
   dones       |-> <<>>,
   truncated   |-> <<>>,
   values      |-> <<>>,
   advantages  |-> <<>>,
   max_size    |-> max_size,
   rng         |-> RandomState(seed)]

\* _clamp_size: the eight sequences the code trims; truncated is not one.
clamp_size(b) ==
  LET start == Len(b.actions) - b.max_size
  IN  IF start > 0
      THEN [b EXCEPT !.actions     = DropFirst(@, start),
                     !.log_probs   = DropFirst(@, start),
                     !.rewards     = DropFirst(@, start),
                     !.states      = DropFirst(@, start),
                     !.next_states = DropFirst(@, start),
                     !.dones       = DropFirst(@, start),
                     !.values      = DropFirst(@, start),
                     !.advantages  = DropFirst(@, start)]
      ELSE b

\* submit_experience with nine arguments of equal leading length: exp is the
\* sequence of the new transitions.
submit_experience(b, exp) ==
  clamp_size([b EXCEPT !.states      = @ \o exp,
                       !.actions     = @ \o exp,
                       !.log_probs   = @ \o exp,
                       !.rewards     = @ \o exp,
                       !.next_states = @ \o exp,
                       !.dones       = @ \o exp,
                       !.truncated   = @ \o exp,
                       !.values      = @ \o exp,
                       !.advantages  = @ \o exp])

\* self.rng.shuffle(indices) on the process-wide generator instead.
shuffle_indices_global(b, g) ==
  LET sh == RngShuffle([i \in 1..Len(b.rewards) |-> i], g)
  IN  [indices |-> sh.list, rng |-> b.rng, np_random |-> sh.rng]

\* indices = [i for i in range(self.rewards.shape[0])]; self.rng.shuffle(indices)
\* g is the process-wide generator, which the call leaves alone.
shuffle_indices(b, g) ==
  LET sh == RngShuffle([i \in 1..Len(b.rewards) |-> i], b.rng)
  IN  [indices |-> sh.list, rng |-> sh.rng, np_random |-> g]

\* The split into n = len(acts) // batch_size batches with the last batch
\* also taking the remainder.
split_batches_keep_rest(acts, probs, obs, vals, adv, batch_size) ==
  LET n == Len(acts) \div batch_size
      stop(i) == IF i = n THEN Len(acts) ELSE i * batch_size
  IN  [i \in 1..n |->
         << SubSeq(acts,  (i - 1) * batch_size + 1, stop(i)),
            SubSeq(probs, (i - 1) * batch_size + 1, stop(i)),
            SubSeq(obs,   (i - 1) * batch_size + 1, stop(i)),
            SubSeq(vals,  (i - 1) * batch_size + 1, stop(i)),
            SubSeq(adv,   (i - 1) * batch_size + 1, stop(i)) >>]

\* n = len(acts) // batch_size; batch i is [start:stop] of the five shuffled
\* sequences, a list [acts, probs, obs, vals, adv].
split_batches(acts, probs, obs, vals, adv, batch_size) ==
  LET n == Len(acts) \div batch_size
  IN  [i \in 1..n |->
         << SubSeq(acts,  (i - 1) * batch_size + 1, i * batch_size),
            SubSeq(probs, (i - 1) * batch_size + 1, i * batch_size),
            SubSeq(obs,   (i - 1) * batch_size + 1, i * batch_size),
            SubSeq(vals,  (i - 1) * batch_size + 1, i * batch_size),
            SubSeq(adv,   (i - 1) * batch_size + 1, i * batch_size) >>]

\* get_all_batches_shuffled with the advantages left in resident order.
get_all_batches_shuffled_adv_unshuffled(b, g, batch_size) ==
  LET sh == shuffle_indices(b, g)
  IN  [buf       |-> [b EXCEPT !.rng = sh.rng],
       np_random |-> sh.np_random,
       batches   |-> split_batches(Index(b.actions, sh.indices),
                                   Index(b.log_probs, sh.indices),
                                   Index(b.states, sh.indices),
                                   Index(b.values, sh.indices),
                                   b.advantages,
                                   batch_size)]

\* get_all_batches_shuffled that stores the shuffled sequences in the buffer.
get_all_batches_shuffled_in_place(b, g, batch_size) ==
  LET sh == shuffle_indices(b, g)
  IN  [buf       |-> [b EXCEPT !.rng = sh.rng,
                               !.actions    = Index(b.actions, sh.indices),
                               !.log_probs  = Index(b.log_probs, sh.indices),
                               !.states     = Index(b.states, sh.indices),
                               !.values     = Index(b.values, sh.indices),
                               !.advantages = Index(b.advantages, sh.indices)],
       np_random |-> sh.np_random,
       batches   |-> split_batches(Index(b.actions, sh.indices),
                                   Index(b.log_probs, sh.indices),
                                   Index(b.states, sh.indices),
                                   Index(b.values, sh.indices),
                                   Index(b.advantages, sh.indices),
                                   batch_size)]

\* get_all_batches_shuffled(batch_size): the buffer and the process-wide
\* generator after the call, and the batches returned.
get_all_batches_shuffled(b, g, batch_size) ==
  LET sh == shuffle_indices(b, g)
  IN  [buf       |-> [b EXCEPT !.rng = sh.rng],
       np_random |-> sh.np_random,
       batches   |-> split_batches(Index(b.actions, sh.indices),
                                   Index(b.log_probs, sh.indices),
                                   Index(b.states, sh.indices),
                                   Index(b.values, sh.indices),
                                   Index(b.advantages, sh.indices),
                                   batch_size)]

\* clear() that empties the sequences and keeps the generator as it is.
clear_keep_rng(b) ==
  [ExperienceBuffer_init(b.max_size, b.seed, b.device) EXCEPT !.rng = b.rng]

\* clear(): del the nine sequences, then __init__(max_size, seed, device).
clear(b) == ExperienceBuffer_init(b.max_size, b.seed, b.device)

\* What a call returned: submit_experience and clear return None, here no
\* batches.
Returned(op, batch_size, batches) ==
  [op |-> op, batch_size |-> batch_size, batches |-> batches]

NoCall == Returned("none", 0, <<>>)

\* --------------------------------------------------------- text and JSON

Digits == <<"0", "1", "2", "3", "4", "5", "6", "7", "8", "9">>

DigitValue(c) == (CHOOSE d \in 1..10 : Digits[d] = c) - 1

Abs(n) == IF n < 0 THEN -n ELSE n

\* str(n) of an int n >= 0: its decimal digits.
RECURSIVE str(_)
str(n) ==
  IF n < 10 THEN <<Digits[n + 1]>>
  ELSE str(n \div 10) \o <<Digits[(n % 10) + 1]>>

\* int(s) of a string of decimal digits.
RECURSIVE int(_)
int(s) ==
  IF Len(s) = 1 THEN DigitValue(s[1])
  ELSE 10 * int(SubSeq(s, 1, Len(s) - 1)) + DigitValue(s[Len(s)])

\* A float is modelled by the number of tenths it holds; json writes it as
\* its repr, here sign, integer part, point, one digit.
JsonFloat(t) ==
  (IF t < 0 THEN <<"-">> ELSE <<>>)
    \o str(Abs(t) \div 10) \o <<".">> \o <<Digits[(Abs(t) % 10) + 1]>>

ParseFloat(s) ==
  LET neg  == s[1] = "-"
      body == IF neg THEN SubSeq(s, 2, Len(s)) ELSE s
      t    == 10 * int(SubSeq(body, 1, Len(body) - 2))
                + DigitValue(body[Len(body)])
  IN  IF neg THEN -t ELSE t

JsonNull == <<"n", "u", "l", "l">>

\* A float or None (<<>>).
JsonOptFloat(o) == IF o = <<>> THEN JsonNull ELSE JsonFloat(o[1])

ParseOptFloat(s) == IF s = JsonNull THEN <<>> ELSE <<ParseFloat(s)>>

JsonString(x) == <<"\"", x, "\"">>

ParseString(s) == s[2]

\* WelfordRunningStat.to_json(): count, mean and the variance accumulator.
to_json(stats) ==
  [count |-> stats.count, mean |-> stats.mean, var |-> stats.var]

\* WelfordRunningStat.from_json(other_json)
from_json(j) == [count |-> j.count, mean |-> j.mean, var |-> j.var]

\* WelfordRunningStat.increment(samples, num): num more samples; the mean
\* and the accumulator move with them.
increment(stats, num) ==
  [count |-> stats.count + num,
   mean  |-> stats.mean + 5 - 2 * num,
   var   |-> stats.var + 3 * num]

\* WelfordRunningStat(1)
NewRunningStat == [count |-> 0, mean |-> 0, var |-> 0]

\* json.dump(book_keeping_vars, f): the text written, key by key.
json_dump(d) ==
  LET base == [cumulative_timesteps     |-> str(d.cumulative_timesteps),
               cumulative_model_updates |-> str(d.cumulative_model_updates),
               policy_average_reward    |-> JsonOptFloat(d.policy_average_reward),
               epoch                    |-> str(d.epoch),
               running_stats |->
                 [count |-> str(d.running_stats.count),
                  mean  |-> JsonFloat(d.running_stats.mean),
                  var   |-> JsonFloat(d.running_stats.var)]]
  IN  IF "wandb_run_id" \in DOMAIN d
      THEN [k \in DOMAIN d |->
              IF k \in DOMAIN base THEN base[k] ELSE JsonString(d[k])]
      ELSE base

\* dict(json.load(f))
json_load(t) ==
  LET base == [cumulative_timesteps     |-> int(t.cumulative_timesteps),
               cumulative_model_updates |-> int(t.cumulative_model_updates),
               policy_average_reward    |-> ParseOptFloat(t.policy_average_reward),
               epoch                    |-> int(t.epoch),
               running_stats |->
                 [count |-> int(t.running_stats.count),
                  mean  |-> ParseFloat(t.running_stats.mean),
                  var   |-> ParseFloat(t.running_stats.var)]]
  IN  IF "wandb_run_id" \in DOMAIN t
      THEN [k \in DOMAIN t |->
              IF k \in DOMAIN base THEN base[k] ELSE ParseString(t[k])]
      ELSE base

\* ------------------------------------------------- the checkpoint folder

\* A directory of the save folder: whether save_to wrote the model, and the
\* text of BOOK_KEEPING_VARS.json (<<>> while there is none).
EmptyDir == [model |-> FALSE, book |-> <<>>]

\* os.makedirs(folder_path, exist_ok=True)
makedirs(f, name) ==
  [n \in DOMAIN f \cup {name} |-> IF n \in DOMAIN f THEN f[n] ELSE EmptyDir]

\* shutil.rmtree(folder_path)
rmtree(f, name) == [n \in DOMAIN f \ {name} |-> f[n]]

\* The directory names in the order of Python's sort of strings.
RECURSIVE StrLess(_, _)
StrLess(a, b) ==
  IF Len(a) = 0 THEN Len(b) > 0
  ELSE IF Len(b) = 0 THEN FALSE
  ELSE IF a[1] # b[1] THEN DigitValue(a[1]) < DigitValue(b[1])
  ELSE StrLess(Tail(a), Tail(b))

RECURSIVE SortNames(_)
SortNames(S) ==
  IF S = {} THEN <<>>
  ELSE LET m == CHOOSE x \in S : \A y \in S \ {x} : StrLess(x, y)
       IN  <<m>> \o SortNames(S \ {m})

\* list.sort() of a list of ints without duplicates.
RECURSIVE SortInts(_)
SortInts(S) ==
  IF S = {} THEN <<>>
  ELSE LET m == CHOOSE x \in S : \A y \in S : x <= y
       IN  <<m>> \o SortInts(S \ {m})

\* The checkpoints sorted as the strings os.listdir returns.
existing_checkpoints_as_strings(f) ==
  LET names == SortNames(DOMAIN f)
  IN  [i \in 1..Len(names) |-> int(names[i])]

\* existing_checkpoints = [int(arg) for arg in os.listdir(folder)], sorted.
existing_checkpoints(f) == SortInts({int(name) : name \in DOMAIN f})

\* Python's l[:stop]: a stop below zero counts from the end.
SliceTo(l, stop) ==
  IF stop < 0 THEN SubSeq(l, 1, Len(l) + stop)
  ELSE SubSeq(l, 1, Min(stop, Len(l)))

RECURSIVE rmtree_all(_, _)
rmtree_all(f, keys) ==
  IF Len(keys) = 0 THEN f
  ELSE rmtree_all(rmtree(f, str(Head(keys))), Tail(keys))

\* The retention step of save: with more than n_checkpoints_to_keep
\* directories, remove existing_checkpoints[:-n_checkpoints_to_keep].
prune(f, keep) ==
  IF Cardinality(DOMAIN f) > keep
  THEN rmtree_all(f, SliceTo(existing_checkpoints(f), -keep))
  ELSE f

\* The wandb keys of the bookkeeping record of a run.
WandbKeys(run) ==
  [wandb_run_id  |-> run.id,
   wandb_project |-> run.project,
   wandb_entity  |-> run.entity,
   wandb_group   |-> run.group]

\* The bookkeeping record: the five entries, and the four of the wandb run
\* when there is one.
book_keeping_record(cts, cmu, avg, ep, stats, run) ==
  LET base == [cumulative_timesteps     |-> cts,
               cumulative_model_updates |-> cmu,
               policy_average_reward    |-> avg,
               epoch                    |-> ep,
               running_stats            |-> to_json(stats)]
      keys == DOMAIN base \cup
                (IF run = <<>> THEN {} ELSE DOMAIN WandbKeys(run[1]))
  IN  [k \in keys |->
         IF k \in DOMAIN base THEN base[k] ELSE WandbKeys(run[1])[k]]

\* book_keeping_vars with the timestep count written under both counters.
book_keeping_vars_copied(cts, cmu, avg, ep, stats, run) ==
  book_keeping_record(cts, cts, avg, ep, stats, run)

\* book_keeping_vars of save, from self.agent.cumulative_timesteps,
\* self.ppo_learner.cumulative_model_updates, self.agent.average_reward,
\* self.epoch, self.return_stats and self.wandb_run.
book_keeping_vars(cts, cmu, avg, ep, stats, run) ==
  book_keeping_record(cts, cmu, avg, ep, stats, run)

\* save without the second os.makedirs: what is written goes into the
\* directory only if the retention step left it there.
save_points_created_once(f, key, keep, doc) ==
  LET name == str(key)
      f1   == makedirs(f, name)
      f2   == prune(f1, keep)
      f4   == IF name \in DOMAIN f2
              THEN [f2 EXCEPT ![name].model = TRUE] ELSE f2
      f5   == IF name \in DOMAIN f4
              THEN [f4 EXCEPT ![name].book = <<json_dump(doc)>>] ELSE f4
  IN  <<f1, f2, f2, f4, f5>>

\* save(cumulative_timesteps), doc being the bookkeeping record: the save
\* folder after the directory is created, after the retention step, after
\* the directory is created again, after ppo_learner.save_to, and after
\* BOOK_KEEPING_VARS.json is written.
save_points(f, key, keep, doc) ==
  LET name == str(key)
      f1   == makedirs(f, name)
      f2   == prune(f1, keep)
      f3   == makedirs(f2, name)
      f4   == [f3 EXCEPT ![name].model = TRUE]
      f5   == [f4 EXCEPT ![name].book = <<json_dump(doc)>>]
  IN  <<f1, f2, f3, f4, f5>>

\* save(cumulative_timesteps): the save folder after it.
save(f, key, keep, doc) == save_points(f, key, keep, doc)[5]

\* The assignments of load from the bookkeeping record it read.
load_book(d) ==
  [cumulative_timesteps     |-> d.cumulative_timesteps,
   average_reward           |-> d.policy_average_reward,
   cumulative_model_updates |-> d.cumulative_model_updates,
   return_stats             |-> from_json(d.running_stats),
   epoch                    |-> d.epoch]

\* wandb.init(entity=..., project=..., group=..., id=..., resume="allow")
resumed_run(d) ==
  [id      |-> d.wandb_run_id,
   project |-> d.wandb_project,
   entity  |-> d.wandb_entity,
   group   |-> d.wandb_group]

\* wandb.init(project=project, group=group, name=run_name, reinit=True)
\* with the default names.
new_run ==
  [id |-> "new-run", project |-> "rlgym-ppo", entity |-> "user",
   group |-> "unnamed-runs"]

\* ------------------------------------------------------------ the Learner

\* The bookkeeping state of the Learner.
BookState ==
  [cumulative_timesteps     |-> cumulative_timesteps,
   average_reward           |-> average_reward,
   cumulative_model_updates |-> cumulative_model_updates,
   return_stats             |-> return_stats,
   epoch                    |-> epoch]

EmptyFolder == [n \in {} |-> EmptyDir]

NoOp == [op |-> "none", dir |-> <<>>]

NoCleanups == [finish |-> 0, agent |-> 0, clear |-> 0]

NoCollected == [steps |-> 0, time |-> 0]

NoFailure == [step |-> "none", exc |-> "none"]

\* The construction arguments of a Learner: exp_buffer_size and
\* ppo_batch_size are ts_per_iteration, as with the defaults.
Configurations ==
  [ts_per_epoch          : 1..MaxTsPerEpoch,
   save_every_ts         : 1..MaxSaveEvery,
   timestep_limit        : {MaxLimit},
   n_checkpoints_to_keep : 0..MaxKeep,
   log_to_wandb          : BOOLEAN]

\* Learner.__init__ without checkpoint_load_folder: a new Learner, its
\* buffer, and its wandb run when log_to_wandb.
Constructed ==
  /\ cfg \in Configurations
  /\ ctor = [max_size |-> cfg.ts_per_epoch, seed |-> 0, device |-> "cpu"]
  /\ buf = ExperienceBuffer_init(ctor.max_size, ctor.seed, ctor.device)
  /\ np_random = RandomState(ctor.seed)
  /\ submitted = <<>>
  /\ next_id = 1
  /\ pc = "constructed"
  /\ epoch = 0
  /\ cumulative_timesteps = 0
  /\ average_reward = <<>>
  /\ cumulative_model_updates = 0
  /\ return_stats = NewRunningStat
  /\ wandb_run = IF cfg.log_to_wandb THEN <<new_run>> ELSE <<>>
  /\ fs = EmptyFolder
  /\ collected = NoCollected
  /\ ppo_report = <<>>
  /\ sink = <<>>
  /\ exc = "none"
  /\ failure = NoFailure
  /\ first_epoch = 0
  /\ cleanups = NoCleanups
  /\ last_ckpt = <<>>
  /\ snap = EmptyFolder
  /\ saved_keys = {}
  /\ increasing = TRUE
  /\ last_op = NoOp
  /\ progress = 0

\* The parts of the buffer model a Learner does not have.
NoTwin ==
  /\ twin = buf
  /\ fresh = buf
  /\ cleared = FALSE
  /\ n_other = 0
  /\ calls = 0
  /\ ret = NoCall
  /\ twin_ret = NoCall
  /\ fresh_ret = NoCall

\* ------------------------------------------------------- the epoch loop

\* The steps of an epoch, by the position of _learn before each.
Steps == {"collect", "integrate", "update", "report", "checkpoint"}

\* The step _learn is in at each position: add_new_experience, the Integrate
\* step, has a position before and one after the RunningStat's increment.
StepAt ==
  [p \in Steps \cup {"submit"} |-> IF p = "submit" THEN "integrate" ELSE p]

\* What a step of the loop may raise: an Exception, or a BaseException that
\* is not one (KeyboardInterrupt, SystemExit).
Raisable == {"Exception", "KeyboardInterrupt"}

\* What agent.collect_timesteps(ts_per_epoch) may return: the number of
\* steps collected, the collection time, and the agent's average reward
\* after it.
CollectOutcomes(ts) ==
  { [steps |-> ts,     time |-> 2, avg |-> <<>>],
    [steps |-> ts + 1, time |-> 1, avg |-> <<-15>>],
    [steps |-> ts,     time |-> 0, avg |-> <<104>>] }

\* What ppo_learner.learn(buffer) may return: the value function loss and
\* its other metrics.
UpdateOutcomes ==
  { [vf_loss |-> <<7>>, other |-> <<2>>],
    [vf_loss |-> <<9>>, other |-> <<3>>] }

\* isinstance(e, Exception): ZeroDivisionError is a subclass of Exception,
\* KeyboardInterrupt is not.
IsException(e) == e \in {"Exception", "ZeroDivisionError"}

\* try: self._learn() without the finally clause: what only except Exception
\* catches leaves learn() at once.
handler_no_finally(e) == IF IsException(e) THEN "except" ELSE "raised"

\* Where learn() goes when _learn raises e: to the except Exception clause,
\* or for any other BaseException straight to the finally clause.
handler(e) == IF IsException(e) THEN "except" ELSE "finally"

\* The test of the Checkpoint step with the remainder taken first.
checkpoint_due_grouped(ep, ts, every) == ep * (ts % every) = 0

\* self.epoch * self.ts_per_epoch % self.save_every_ts == 0
checkpoint_due(ep, ts, every) == (ep * ts) % every = 0

\* int(round(self.epoch * self.ts_per_epoch))
checkpoint_key(ep, ts) == ep * ts

\* steps_collected / collection_time evaluated without an error when the
\* time is zero, as a division of numpy floats is.
collected_per_second_unchecked(coll) ==
  IF coll.time = 0 THEN <<0>> ELSE <<(10 * coll.steps) \div coll.time>>

\* steps_collected / collection_time, in tenths: <<>> is ZeroDivisionError.
collected_per_second(coll) ==
  IF coll.time = 0 THEN <<>> ELSE <<(10 * coll.steps) \div coll.time>>

\* The report with the sentinel kept for one epoch more.
report_mapping_sentinel_late(ep, rep, cts, coll, avg) ==
  [value_function_loss  |-> IF ep <= 1 THEN <<>> ELSE rep.vf_loss,
   other                |-> rep.other,
   cumulative_timesteps |-> cts,
   timesteps_collected  |-> coll.steps,
   collection_time      |-> coll.time,
   collected_per_second |-> collected_per_second(coll)[1],
   policy_reward        |-> avg]

\* The report of an epoch: ppo_report, with the value function loss NaN
\* (<<>>) in epoch 0, and the loop's own metrics; rates are in tenths.
\* (The two metrics of the total iteration time are left out.)
report_mapping(ep, rep, cts, coll, avg) ==
  [value_function_loss  |-> IF ep < 1 THEN <<>> ELSE rep.vf_loss,
   other                |-> rep.other,
   cumulative_timesteps |-> cts,
   timesteps_collected  |-> coll.steps,
   collection_time      |-> coll.time,
   collected_per_second |-> collected_per_second(coll)[1],
   policy_reward        |-> avg]

\* cleanup(): finish the wandb run if there is one, agent.cleanup(),
\* experience_buffer.clear(); c counts each.
cleanup(c, run) ==
  [finish |-> IF run # <<>> THEN c.finish + 1 ELSE c.finish,
   agent  |-> c.agent + 1,
   clear  |-> c.clear + 1]

Init == Constructed /\ NoTwin

\* learn() is called: try: self._learn()
LearnCall ==
  /\ pc = "constructed"
  /\ pc' = "loop"
  /\ first_epoch' = epoch
  /\ UNCHANGED <<cfg, epoch, cumulative_timesteps, average_reward,
                 cumulative_model_updates, return_stats, wandb_run, fs,
                 collected, ppo_report, sink, exc, failure, cleanups,
                 last_ckpt, snap, saved_keys, increasing, last_op, progress>>
  /\ UNCHANGED bufVars

\* The loop test with the limit itself let through.
loop_guard_inclusive(cts, limit) == cts <= limit

\* self.agent.cumulative_timesteps < self.timestep_limit
loop_guard(cts, limit) == cts < limit

\* while self.agent.cumulative_timesteps < self.timestep_limit
LoopTest ==
  /\ pc = "loop"
  /\ pc' = IF loop_guard(cumulative_timesteps, cfg.timestep_limit)
           THEN "collect" ELSE "cleanup"
  /\ UNCHANGED <<cfg, epoch, cumulative_timesteps, average_reward,
                 cumulative_model_updates, return_stats, wandb_run, fs,
                 collected, ppo_report, sink, exc, failure, first_epoch,
                 cleanups, last_ckpt, snap, saved_keys, increasing, last_op,
                 progress>>
  /\ UNCHANGED bufVars

\* Collect with add_new_experience left out.
CollectThenUpdate ==
  /\ pc = "collect"
  /\ \E o \in CollectOutcomes(cfg.ts_per_epoch) :
       /\ collected' = [steps |-> o.steps, time |-> o.time]
       /\ cumulative_timesteps' = cumulative_timesteps + o.steps
       /\ average_reward' = o.avg
  /\ pc' = "update"
  /\ UNCHANGED <<cfg, epoch, cumulative_model_updates, return_stats,
                 wandb_run, fs, ppo_report, sink, exc, failure, first_epoch,
                 cleanups, last_ckpt, snap, saved_keys, increasing, last_op,
                 progress>>
  /\ UNCHANGED bufVars

\* experience, steps_collected, collection_time =
\*   self.agent.collect_timesteps(self.ts_per_epoch)
Collect ==
  /\ pc = "collect"
  /\ \E o \in CollectOutcomes(cfg.ts_per_epoch) :
       /\ collected' = [steps |-> o.steps, time |-> o.time]
       /\ cumulative_timesteps' = cumulative_timesteps + o.steps
       /\ average_reward' = o.avg
  /\ pc' = "integrate"
  /\ UNCHANGED <<cfg, epoch, cumulative_model_updates, return_stats,
                 wandb_run, fs, ppo_report, sink, exc, failure, first_epoch,
                 cleanups, last_ckpt, snap, saved_keys, increasing, last_op,
                 progress>>
  /\ UNCHANGED bufVars

\* self.add_new_experience(experience), first part: the returns are
\* computed and the RunningStat takes them.
Integrate ==
  /\ pc = "integrate"
  /\ return_stats' = increment(return_stats, collected.steps)
  /\ pc' = "submit"
  /\ UNCHANGED <<cfg, epoch, cumulative_timesteps, average_reward,
                 cumulative_model_updates, wandb_run, fs, collected,
                 ppo_report, sink, exc, failure, first_epoch, cleanups,
                 last_ckpt, snap, saved_keys, increasing, last_op, progress>>
  /\ UNCHANGED bufVars

\* self.add_new_experience(experience), second part: the buffer takes the
\* transitions.
IntegrateSubmit ==
  /\ pc = "submit"
  /\ LET exp == [i \in 1..collected.steps |-> next_id + i - 1]
     IN  /\ buf' = submit_experience(buf, exp)
         /\ submitted' = submitted \o exp
  /\ next_id' = next_id + collected.steps
  /\ pc' = "update"
  /\ UNCHANGED <<cfg, epoch, cumulative_timesteps, average_reward,
                 cumulative_model_updates, return_stats, wandb_run, fs,
                 collected, ppo_report, sink, exc, failure, first_epoch,
                 cleanups, last_ckpt, snap, saved_keys, increasing, last_op,
                 progress>>
  /\ UNCHANGED <<np_random>>
  /\ UNCHANGED twinVars

\* ppo_report = self.ppo_learner.learn(self.experience_buffer): it takes the
\* buffer's shuffled batches and counts its updates.
Update ==
  /\ pc = "update"
  /\ \E o \in UpdateOutcomes : ppo_report' = <<o>>
  /\ buf' = get_all_batches_shuffled(buf, np_random, cfg.ts_per_epoch).buf
  /\ cumulative_model_updates' = cumulative_model_updates + 1
  /\ pc' = "report"
  /\ UNCHANGED <<cfg, epoch, cumulative_timesteps, average_reward,
                 return_stats, wandb_run, fs, collected, sink, exc, failure,
                 first_epoch, cleanups, last_ckpt, snap, saved_keys,
                 increasing, last_op, progress>>
  /\ UNCHANGED <<np_random, submitted, next_id>>
  /\ UNCHANGED twinVars

\* The report is built and handed to reporting.report_metrics; a collection
\* time of zero raises ZeroDivisionError before that.
Report ==
  /\ pc = "report"
  /\ IF collected_per_second(collected) = <<>>
     THEN /\ exc' = "ZeroDivisionError"
          /\ failure' = [step |-> "report", exc |-> "ZeroDivisionError"]
          /\ pc' = handler("ZeroDivisionError")
          /\ UNCHANGED <<sink, ppo_report>>
     ELSE /\ sink' = Append(sink, report_mapping(epoch, ppo_report[1],
                                                 cumulative_timesteps,
                                                 collected, average_reward))
          /\ ppo_report' = <<>>
          /\ pc' = "checkpoint"
          /\ UNCHANGED <<exc, failure>>
  /\ UNCHANGED <<cfg, epoch, cumulative_timesteps, average_reward,
                 cumulative_model_updates, return_stats, wandb_run, fs,
                 collected, first_epoch, cleanups, last_ckpt, snap,
                 saved_keys, increasing, last_op, progress>>
  /\ UNCHANGED bufVars

\* if self.epoch * self.ts_per_epoch % self.save_every_ts == 0:
\*     self.save(int(round(self.epoch * self.ts_per_epoch)))
Checkpoint ==
  /\ pc = "checkpoint"
  /\ LET key == checkpoint_key(epoch, cfg.ts_per_epoch)
     IN  IF checkpoint_due(epoch, cfg.ts_per_epoch, cfg.save_every_ts)
         THEN /\ fs' = save(fs, key, cfg.n_checkpoints_to_keep,
                            book_keeping_vars(cumulative_timesteps,
                                              cumulative_model_updates,
                                              average_reward, epoch,
                                              return_stats, wandb_run))
              /\ snap' = [n \in DOMAIN fs' |->
                            IF n = str(key) THEN BookState ELSE snap[n]]
              /\ saved_keys' = saved_keys \cup {key}
              /\ increasing' = (increasing /\ \A k \in saved_keys : k < key)
              /\ last_op' = [op |-> "save", dir |-> str(key)]
              /\ last_ckpt' = <<[epoch |-> epoch, saved |-> TRUE, key |-> key]>>
         ELSE /\ last_ckpt' = <<[epoch |-> epoch, saved |-> FALSE, key |-> key]>>
              /\ UNCHANGED <<fs, snap, saved_keys, increasing, last_op>>
  /\ pc' = "increment"
  /\ UNCHANGED <<cfg, epoch, cumulative_timesteps, average_reward,
                 cumulative_model_updates, return_stats, wandb_run,
                 collected, ppo_report, sink, exc, failure, first_epoch,
                 cleanups, progress>>
  /\ UNCHANGED bufVars

\* self.epoch += 1
Increment ==
  /\ pc = "increment"
  /\ epoch' = epoch + 1
  /\ pc' = "loop"
  /\ UNCHANGED <<cfg, cumulative_timesteps, average_reward,
                 cumulative_model_updates, return_stats, wandb_run, fs,
                 collected, ppo_report, sink, exc, failure, first_epoch,
                 cleanups, last_ckpt, snap, saved_keys, increasing, last_op,
                 progress>>
  /\ UNCHANGED bufVars

\* A step of the epoch raises instead of completing.
StepRaises ==
  /\ pc \in DOMAIN StepAt
  /\ \E e \in Raisable :
       /\ exc' = e
       /\ failure' = [step |-> StepAt[pc], exc |-> e]
       /\ pc' = handler(e)
  /\ UNCHANGED <<cfg, epoch, cumulative_timesteps, average_reward,
                 cumulative_model_updates, return_stats, wandb_run, fs,
                 collected, ppo_report, sink, first_epoch, cleanups,
                 last_ckpt, snap, saved_keys, increasing, last_op, progress>>
  /\ UNCHANGED bufVars

\* except Exception: the traceback is printed and the exception is dropped.
Except ==
  /\ pc = "except"
  /\ exc' = "none"
  /\ pc' = "finally"
  /\ UNCHANGED <<cfg, epoch, cumulative_timesteps, average_reward,
                 cumulative_model_updates, return_stats, wandb_run, fs,
                 collected, ppo_report, sink, failure, first_epoch, cleanups,
                 last_ckpt, snap, saved_keys, increasing, last_op, progress>>
  /\ UNCHANGED bufVars

\* self.cleanup() as the last statement of _learn, after the loop.
CleanupInLearn ==
  /\ pc = "cleanup"
  /\ cleanups' = cleanup(cleanups, wandb_run)
  /\ buf' = clear(buf)
  /\ submitted' = <<>>
  /\ pc' = "finally"
  /\ UNCHANGED <<cfg, epoch, cumulative_timesteps, average_reward,
                 cumulative_model_updates, return_stats, wandb_run, fs,
                 collected, ppo_report, sink, exc, failure, first_epoch,
                 last_ckpt, snap, saved_keys, increasing, last_op, progress>>
  /\ UNCHANGED <<np_random, next_id>>
  /\ UNCHANGED twinVars

\* finally: self.cleanup(); then learn() returns, or the exception that was
\* not caught leaves it.
Finally ==
  /\ pc = "finally"
  /\ cleanups' = cleanup(cleanups, wandb_run)
  /\ buf' = clear(buf)
  /\ submitted' = <<>>
  /\ pc' = IF exc = "none" THEN "returned" ELSE "raised"
  /\ UNCHANGED <<cfg, epoch, cumulative_timesteps, average_reward,
                 cumulative_model_updates, return_stats, wandb_run, fs,
                 collected, ppo_report, sink, exc, failure, first_epoch,
                 last_ckpt, snap, saved_keys, increasing, last_op, progress>>
  /\ UNCHANGED <<np_random, next_id>>
  /\ UNCHANGED twinVars

Next ==
  \/ LearnCall
  \/ LoopTest
  \/ Collect
  \/ Integrate
  \/ IntegrateSubmit
  \/ Update
  \/ Report
  \/ Checkpoint
  \/ Increment
  \/ StepRaises
  \/ Except
  \/ CleanupInLearn
  \/ Finally

Spec == Init /\ [][Next]_vars

\* ------------------------------ construction with a checkpoint to load

\* os.path.exists taken to hold of every path.
path_exists_unchecked(f, name) == TRUE

\* os.path.exists(folder_path)
path_exists(f, name) == name \in DOMAIN f

\* load(folder_path, load_wandb) on a Learner whose run is run: what it
\* raises, the bookkeeping it assigns (<<>> when it assigns none), the run
\* of the Learner after it and the wandb_loaded it returns.
load(f, name, load_wandb, run) ==
  IF ~path_exists(f, name)
  THEN [raised |-> "AssertionError", book |-> <<>>, wandb_run |-> run,
        wandb_loaded |-> FALSE]
  ELSE IF name \notin DOMAIN f \/ f[name].book = <<>>
  THEN [raised |-> "FileNotFoundError", book |-> <<>>, wandb_run |-> run,
        wandb_loaded |-> FALSE]
  ELSE LET d      == json_load(f[name].book[1])
           resume == "wandb_run_id" \in DOMAIN d /\ load_wandb
       IN  [raised |-> "none", book |-> <<load_book(d)>>,
            wandb_run |-> IF resume THEN <<resumed_run(d)>> ELSE run,
            wandb_loaded |-> resume]

\* The test before wandb.init with log_to_wandb alone.
new_run_wanted_when_logging(log_to_wandb, run, wandb_loaded) == log_to_wandb

\* log_to_wandb and self.wandb_run is None and not wandb_loaded
new_run_wanted(log_to_wandb, run, wandb_loaded) ==
  log_to_wandb /\ run = <<>> /\ ~wandb_loaded

\* A wandb run the caller passes to the constructor.
given_run ==
  [id |-> "given-run", project |-> "my-project", entity |-> "me",
   group |-> "my-group"]

\* The wandb run of an earlier Learner, recorded in its checkpoints.
earlier_run ==
  [id |-> "earlier-run", project |-> "rlgym-ppo", entity |-> "user",
   group |-> "unnamed-runs"]

\* The checkpoint an earlier Learner with ts_per_epoch = 1 wrote in its
\* epoch ep: directory ep, recording ep + 1 timesteps and updates.
earlier_checkpoint(ep, run) ==
  save(EmptyFolder, ep, 1,
       book_keeping_vars(ep + 1, ep + 1, <<104>>, ep,
                         increment(NewRunningStat, ep + 1), run))

\* The save folder a Learner is constructed on: empty, or holding one
\* checkpoint of an earlier Learner, of its first epoch or of the epoch in
\* which it reached the timestep limit.
EarlierFolders ==
  {EmptyFolder} \cup
  {earlier_checkpoint(ep, run) :
     ep \in {0, MaxLimit - 1}, run \in {<<>>, <<earlier_run>>}}

\* The construction arguments with checkpoint_load_folder (<<>> is None) and
\* load_wandb.
ResumeConfigurations ==
  [ts_per_epoch           : 1..MaxTsPerEpoch,
   save_every_ts          : {1},
   timestep_limit         : {MaxLimit},
   n_checkpoints_to_keep  : {MaxKeep},
   log_to_wandb           : BOOLEAN,
   checkpoint_load_folder : {<<>>, <<str(0)>>, <<str(MaxLimit - 1)>>},
   load_wandb             : BOOLEAN]

\* Learner.__init__ up to self.wandb_run = wandb_run: the bookkeeping has
\* its initial values and the run is the one passed in, if any.
InitResume ==
  /\ cfg \in ResumeConfigurations
  /\ ctor = [max_size |-> cfg.ts_per_epoch, seed |-> 0, device |-> "cpu"]
  /\ buf = ExperienceBuffer_init(ctor.max_size, ctor.seed, ctor.device)
  /\ np_random = RandomState(ctor.seed)
  /\ submitted = <<>>
  /\ next_id = 1
  /\ pc = "init"
  /\ epoch = 0
  /\ cumulative_timesteps = 0
  /\ average_reward = <<>>
  /\ cumulative_model_updates = 0
  /\ return_stats = NewRunningStat
  /\ wandb_run \in {<<>>, <<given_run>>}
  /\ fs \in EarlierFolders
  /\ collected = NoCollected
  /\ ppo_report = <<>>
  /\ sink = <<>>
  /\ exc = "none"
  /\ failure = NoFailure
  /\ first_epoch = 0
  /\ cleanups = NoCleanups
  /\ last_ckpt = <<>>
  /\ snap = [n \in DOMAIN fs |-> load_book(json_load(fs[n].book[1]))]
  /\ saved_keys = {}
  /\ increasing = TRUE
  /\ last_op = NoOp
  /\ progress = 0
  /\ NoTwin

\* The rest of Learner.__init__: wandb_loaded = checkpoint_load_folder is not
\* None and self.load(checkpoint_load_folder, load_wandb); then the new wandb
\* run, if one is wanted. An exception of load leaves the constructor.
Construct ==
  /\ pc = "init"
  /\ LET asked == cfg.checkpoint_load_folder # <<>>
         l     == IF asked
                  THEN load(fs, cfg.checkpoint_load_folder[1],
                            cfg.load_wandb, wandb_run)
                  ELSE [raised |-> "none", book |-> <<>>,
                        wandb_run |-> wandb_run, wandb_loaded |-> FALSE]
     IN  IF l.raised # "none"
         THEN /\ pc' = "aborted"
              /\ exc' = l.raised
              /\ failure' = [step |-> "load", exc |-> l.raised]
              /\ UNCHANGED <<epoch, cumulative_timesteps, average_reward,
                             cumulative_model_updates, return_stats,
                             wandb_run, last_op>>
         ELSE /\ pc' = "constructed"
              /\ IF l.book # <<>>
                 THEN /\ cumulative_timesteps' = l.book[1].cumulative_timesteps
                      /\ average_reward' = l.book[1].average_reward
                      /\ cumulative_model_updates' =
                           l.book[1].cumulative_model_updates
                      /\ return_stats' = l.book[1].return_stats
                      /\ epoch' = l.book[1].epoch
                      /\ last_op' = [op  |-> "load",
                                     dir |-> cfg.checkpoint_load_folder[1]]
                 ELSE UNCHANGED <<epoch, cumulative_timesteps, average_reward,
                                  cumulative_model_updates, return_stats,
                                  last_op>>
              /\ wandb_run' = IF new_run_wanted(cfg.log_to_wandb, l.wandb_run,
                                                l.wandb_loaded)
                              THEN <<new_run>>
                              ELSE l.wandb_run
              /\ UNCHANGED <<exc, failure>>
  /\ UNCHANGED <<cfg, fs, collected, ppo_report, sink, first_epoch, cleanups,
                 last_ckpt, snap, saved_keys, increasing, progress>>
  /\ UNCHANGED bufVars

NextResume == Construct \/ Next

\* A Learner constructed with or without a checkpoint to load, and learn()
\* called on it.
SpecResume == InitResume /\ [][NextResume]_vars

\* learn() in which no step is interrupted from outside: every step it
\* reaches is carried out.
NextLive ==
  \/ Construct
  \/ LearnCall
  \/ LoopTest
  \/ Collect
  \/ Integrate
  \/ IntegrateSubmit
  \/ Update
  \/ Report
  \/ Checkpoint
  \/ Increment
  \/ Except
  \/ CleanupInLearn
  \/ Finally

\* Construction without a wandb run, which has no part in the loop's test.
InitLive ==
  /\ InitResume
  /\ ~cfg.log_to_wandb
  /\ ~cfg.load_wandb
  /\ wandb_run = <<>>

SpecLive == InitLive /\ [][NextLive]_vars /\ WF_vars(NextLive)

\* -------------------------------------- save and load called on a Learner

\* The number of keys save is called with.
MaxKeys == 3
\* The keys are the multiples of this number of timesteps.
KeyStep == 5

Keys == {KeyStep * i : i \in 1..MaxKeys}

\* A Learner after construction, with n_checkpoints_to_keep and
\* log_to_wandb of any value and the other arguments fixed.
InitCheckpoint ==
  /\ Constructed
  /\ NoTwin
  /\ cfg.ts_per_epoch = MaxTsPerEpoch
  /\ cfg.save_every_ts = 1

\* Training between two calls, in which the collector returns KeyStep times
\* ts_per_epoch timesteps: every bookkeeping variable moves, the average
\* reward through None and two values.
CkTrain ==
  /\ progress < MaxProgress
  /\ progress' = progress + 1
  /\ epoch' = epoch + 1
  /\ cumulative_timesteps' = cumulative_timesteps + KeyStep * cfg.ts_per_epoch
  /\ cumulative_model_updates' = cumulative_model_updates + 1
  /\ average_reward' = IF average_reward = <<>> THEN <<-15>>
                       ELSE IF average_reward = <<-15>> THEN <<104>>
                       ELSE <<>>
  /\ return_stats' = increment(return_stats, cfg.ts_per_epoch)
  /\ last_op' = [op |-> "train", dir |-> <<>>]
  /\ UNCHANGED <<cfg, wandb_run, fs, snap, saved_keys, increasing>>
  /\ UNCHANGED loopVars
  /\ UNCHANGED bufVars

\* save(key)
CkSave ==
  \E key \in Keys :
    /\ fs' = save(fs, key, cfg.n_checkpoints_to_keep,
                  book_keeping_vars(cumulative_timesteps,
                                    cumulative_model_updates, average_reward,
                                    epoch, return_stats, wandb_run))
    /\ snap' = [n \in DOMAIN fs' |->
                  IF n = str(key) \/ n \notin DOMAIN snap
                  THEN BookState ELSE snap[n]]
    /\ saved_keys' = saved_keys \cup {key}
    /\ increasing' = (increasing /\ \A k \in saved_keys : k < key)
    /\ last_op' = [op |-> "save", dir |-> str(key)]
    /\ UNCHANGED <<cfg, epoch, cumulative_timesteps, average_reward,
                   cumulative_model_updates, return_stats, wandb_run,
                   progress>>
    /\ UNCHANGED loopVars
    /\ UNCHANGED bufVars

\* load(folder_path, load_wandb) of a checkpoint directory of the folder.
CkLoad ==
  \E name \in DOMAIN fs, load_wandb \in BOOLEAN :
    /\ fs[name].book # <<>>
    /\ LET d == json_load(fs[name].book[1])
           l == load_book(d)
       IN  /\ cumulative_timesteps' = l.cumulative_timesteps
           /\ average_reward' = l.average_reward
           /\ cumulative_model_updates' = l.cumulative_model_updates
           /\ return_stats' = l.return_stats
           /\ epoch' = l.epoch
           /\ wandb_run' = IF "wandb_run_id" \in DOMAIN d /\ load_wandb
                           THEN <<resumed_run(d)>>
                           ELSE wandb_run
    /\ last_op' = [op |-> "load", dir |-> name]
    /\ UNCHANGED <<cfg, fs, snap, saved_keys, increasing, progress>>
    /\ UNCHANGED loopVars
    /\ UNCHANGED bufVars

NextCheckpoint == CkTrain \/ CkSave \/ CkLoad

\* save(key) left by an exception, or the process stopped, at one of the
\* points before BOOK_KEEPING_VARS.json is written.
CkSaveFails ==
  \E key \in Keys, point \in 1..4 :
    /\ fs' = save_points(fs, key, cfg.n_checkpoints_to_keep,
                         book_keeping_vars(cumulative_timesteps,
                                           cumulative_model_updates,
                                           average_reward, epoch,
                                           return_stats, wandb_run))[point]
    /\ snap' = [n \in DOMAIN fs' |->
                  IF n \in DOMAIN snap THEN snap[n] ELSE BookState]
    /\ last_op' = [op |-> "save_failed", dir |-> str(key)]
    /\ UNCHANGED <<cfg, epoch, cumulative_timesteps, average_reward,
                   cumulative_model_updates, return_stats, wandb_run,
                   saved_keys, increasing, progress>>
    /\ UNCHANGED loopVars
    /\ UNCHANGED bufVars

NextSaveFails == CkTrain \/ CkSave \/ CkLoad \/ CkSaveFails

\* A Learner that keeps at least one checkpoint and has no wandb run.
InitSaveFails ==
  /\ InitCheckpoint
  /\ cfg.n_checkpoints_to_keep >= 1
  /\ ~cfg.log_to_wandb

\* save and load called on a Learner, with saves that do not complete.
SpecSaveFails == InitSaveFails /\ [][NextSaveFails]_vars

SpecCheckpoint == InitCheckpoint /\ [][NextCheckpoint]_vars

\* ---------------------------------------------- the buffer on its own

\* The buffer model has no Learner.
NoLearner ==
  /\ cfg = [ts_per_epoch |-> 1, save_every_ts |-> 1,
            timestep_limit |-> MaxLimit, n_checkpoints_to_keep |-> 0,
            log_to_wandb |-> FALSE]
  /\ pc = "none"
  /\ epoch = 0
  /\ cumulative_timesteps = 0
  /\ average_reward = <<>>
  /\ cumulative_model_updates = 0
  /\ return_stats = NewRunningStat
  /\ wandb_run = <<>>
  /\ fs = EmptyFolder
  /\ collected = NoCollected
  /\ ppo_report = <<>>
  /\ sink = <<>>
  /\ exc = "none"
  /\ failure = NoFailure
  /\ first_epoch = 0
  /\ cleanups = NoCleanups
  /\ last_ckpt = <<>>
  /\ snap = EmptyFolder
  /\ saved_keys = {}
  /\ increasing = TRUE
  /\ last_op = NoOp
  /\ progress = 0

InitBuffer ==
  /\ NoLearner
  /\ ctor \in [max_size : 1..MaxSize, seed : 0..MaxSeed, device : Devices]
  /\ buf = ExperienceBuffer_init(ctor.max_size, ctor.seed, ctor.device)
  /\ twin = ExperienceBuffer_init(ctor.max_size, ctor.seed, ctor.device)
  /\ fresh = ExperienceBuffer_init(ctor.max_size, ctor.seed, ctor.device)
  /\ cleared = FALSE
  /\ np_random = RandomState(ctor.seed)
  /\ n_other = 0
  /\ calls = 0
  /\ ret = NoCall
  /\ twin_ret = NoCall
  /\ fresh_ret = NoCall
  /\ submitted = <<>>
  /\ next_id = 1

\* The same submit_experience call on the three buffers.
Submit ==
  \E n \in 0..MaxSubmit :
    /\ next_id + n - 1 <= MaxTotal
    /\ LET exp == [i \in 1..n |-> next_id + i - 1]
       IN  /\ buf' = submit_experience(buf, exp)
           /\ twin' = submit_experience(twin, exp)
           /\ fresh' = submit_experience(fresh, exp)
           /\ submitted' = submitted \o exp
    /\ next_id' = next_id + n
    /\ ret' = Returned("submit", 0, <<>>)
    /\ twin_ret' = Returned("submit", 0, <<>>)
    /\ fresh_ret' = Returned("submit", 0, <<>>)
    /\ UNCHANGED <<ctor, cleared, np_random, n_other, calls>>
    /\ UNCHANGED learnerVars

\* The same get_all_batches_shuffled call on the three buffers, one after
\* the other in one process.
Shuffle ==
  \E batch_size \in 1..MaxBatchSize :
    LET r1 == get_all_batches_shuffled(buf, np_random, batch_size)
        r2 == get_all_batches_shuffled(twin, r1.np_random, batch_size)
        r3 == get_all_batches_shuffled(fresh, r2.np_random, batch_size)
    IN  /\ buf' = r1.buf
        /\ twin' = r2.buf
        /\ fresh' = r3.buf
        /\ np_random' = r3.np_random
        /\ ret' = Returned("shuffle", batch_size, r1.batches)
        /\ twin_ret' = Returned("shuffle", batch_size, r2.batches)
        /\ fresh_ret' = Returned("shuffle", batch_size, r3.batches)
        /\ calls' = Min(calls + 1, MaxCalls)
        /\ UNCHANGED <<ctor, cleared, n_other, submitted, next_id>>
        /\ UNCHANGED learnerVars

\* clear() on buf and on twin; fresh is constructed anew.
Clear ==
  /\ buf' = clear(buf)
  /\ twin' = clear(twin)
  /\ fresh' = ExperienceBuffer_init(ctor.max_size, ctor.seed, ctor.device)
  /\ cleared' = TRUE
  /\ submitted' = <<>>
  /\ ret' = Returned("clear", 0, <<>>)
  /\ twin_ret' = Returned("clear", 0, <<>>)
  /\ fresh_ret' = Returned("clear", 0, <<>>)
  /\ calls' = 0
  /\ UNCHANGED <<ctor, np_random, n_other, next_id>>
  /\ UNCHANGED learnerVars

\* Other code of the process draws from the process-wide generator.
OtherRandom ==
  /\ n_other < MaxOther
  /\ n_other' = n_other + 1
  /\ np_random' = RngNext(np_random)
  /\ UNCHANGED <<ctor, buf, twin, fresh, cleared, calls, ret, twin_ret,
                 fresh_ret, submitted, next_id>>
  /\ UNCHANGED learnerVars

NextBuffer == Submit \/ Shuffle \/ Clear \/ OtherRandom

SpecBuffer == InitBuffer /\ [][NextBuffer]_vars

\* ============================================================== claims

Fields == {"states", "actions", "log_probs", "rewards", "next_states",
           "dones", "truncated", "values", "advantages"}

\* C1 (alignment invariant): after any sequence of submit_experience calls
\* with nine arguments of equal length, evictions included, the nine resident
\* sequences of the buffer have the same length.
C1_AlignmentInvariant ==
  \A f \in Fields : Len(buf[f]) = Len(buf.actions)

\* C2 (FIFO bound): after each submit_experience call every resident sequence
\* holds exactly the most recently submitted transitions, at most max_size of
\* them, in the order of submission; nothing is dropped while at most
\* max_size transitions have been submitted.
C2_FIFOBound ==
  \A f \in Fields : buf[f] = LastN(submitted, buf.max_size)

\* The transitions (by the id in the actions field) that batch i holds.
BatchIds(batches, i) == Range(batches[i][1])

UsedIds(batches) == UNION {BatchIds(batches, i) : i \in 1..Len(batches)}

\* C3 (minibatch partition): get_all_batches_shuffled(batch_size) on a buffer
\* of N transitions returns floor(N / batch_size) minibatches of exactly
\* batch_size transitions each; no resident transition is in two minibatches
\* or twice in one, and exactly N mod batch_size of them are in none.
C3_MinibatchPartition ==
  ret.op = "shuffle" =>
    LET N  == Len(buf.actions)
        bs == ret.batch_size
        B  == ret.batches
    IN  /\ Len(B) = N \div bs
        /\ \A i \in 1..Len(B) : \A f \in 1..5 : Len(B[i][f]) = bs
        /\ \A i \in 1..Len(B) : Cardinality(BatchIds(B, i)) = bs
        /\ \A i, j \in 1..Len(B) :
             i # j => BatchIds(B, i) \cap BatchIds(B, j) = {}
        /\ UsedIds(B) \subseteq Range(buf.actions)
        /\ Cardinality(Range(buf.actions) \ UsedIds(B)) = N % bs

\* A shuffle that returned a minibatch and dropped a remainder.
C3_Witness ==
  /\ ret.op = "shuffle"
  /\ Len(ret.batches) >= 1
  /\ Len(buf.actions) % ret.batch_size # 0

\* C9 (shuffle determinism): two buffers constructed with the same seed and
\* given the same calls return the same minibatches on the first and on
\* every later get_all_batches_shuffled call, and their generators stay in
\* step, whatever is drawn from the process-wide generator.
C9_ShuffleDeterminism ==
  /\ twin_ret = ret
  /\ twin.rng = buf.rng

\* A second or later shuffle of at least two transitions, after other code
\* drew from the process-wide generator.
C9_Witness ==
  /\ ret.op = "shuffle"
  /\ calls >= 2
  /\ n_other >= 1
  /\ Len(ret.batches) >= 1
  /\ Len(buf.actions) >= 2

\* C10 (clear resets state): after clear() the nine sequences are empty and
\* max_size, seed and device are those of construction; from then on the
\* buffer holds what a freshly constructed buffer given the same calls
\* holds, generator included, and returns the same minibatches.
C10_ClearResets ==
  /\ ret.op = "clear" =>
       /\ \A f \in Fields : Len(buf[f]) = 0
       /\ buf.max_size = ctor.max_size
       /\ buf.seed = ctor.seed
       /\ buf.device = ctor.device
  /\ cleared => (buf = fresh /\ ret = fresh_ret)

\* A shuffle of at least two transitions submitted after a clear().
C10_Witness ==
  /\ cleared
  /\ ret.op = "shuffle"
  /\ Len(ret.batches) >= 1
  /\ Len(buf.actions) >= 2

\* The checkpoint directories of the save folder, as integers.
CheckpointKeys == {int(name) : name \in DOMAIN fs}

\* The n largest elements of S.
Largest(S, n) == {k \in S : Cardinality({j \in S : j > k}) < n}

\* C5 (retention), as claimed: once more than K = n_checkpoints_to_keep
\* distinct keys have been saved into the folder, exactly the K directories
\* with the numerically largest keys remain.
C5_Retention ==
  Cardinality(saved_keys) > cfg.n_checkpoints_to_keep =>
    CheckpointKeys = Largest(saved_keys, cfg.n_checkpoints_to_keep)

\* C5 (retention), amended: the same for K >= 1 and keys saved in increasing
\* numeric order, the order of names being that of integers, not of strings.
C5_RetentionIncreasing ==
  ( /\ cfg.n_checkpoints_to_keep >= 1
    /\ increasing
    /\ Cardinality(saved_keys) > cfg.n_checkpoints_to_keep ) =>
    /\ CheckpointKeys = Largest(saved_keys, cfg.n_checkpoints_to_keep)
    /\ Cardinality(DOMAIN fs) = cfg.n_checkpoints_to_keep

\* Three keys saved in increasing order with K = 2: the one-digit key is the
\* oldest as an integer and the newest as a string.
C5_Witness ==
  /\ cfg.n_checkpoints_to_keep = 2
  /\ increasing
  /\ Cardinality(saved_keys) = 3
  /\ \E k \in saved_keys : k < 10
  /\ Cardinality(DOMAIN fs) = 2

\* C6 (checkpoint round trip): after load of a directory that save wrote,
\* cumulative_timesteps, epoch, cumulative_model_updates, the average policy
\* reward and the RunningStat are what they were when save was called.
C6_RoundTrip ==
  last_op.op = "load" => BookState = snap[last_op.dir]

\* A load that went back to an earlier epoch, with a count of two digits and
\* an average reward that is not None.
C6_Witness ==
  /\ last_op.op = "load"
  /\ epoch >= 1
  /\ epoch < progress
  /\ cumulative_timesteps >= 10
  /\ average_reward # <<>>
  /\ return_stats.count > 0

\* cleanup() has run: the wandb run, if any, was finished, the collector was
\* released, and the buffer was cleared and is empty.
CleanupRan ==
  /\ wandb_run # <<>> => cleanups.finish >= 1
  /\ cleanups.agent >= 1
  /\ cleanups.clear >= 1
  /\ \A f \in Fields : Len(buf[f]) = 0

\* C4 (cleanup always runs, errors are swallowed), as claimed: when learn()
\* is left, cleanup has run; once a step has raised, no step of an epoch
\* runs any more; and whatever was raised, learn() returns and nothing
\* reaches its caller.
C4_CleanupAndSwallow ==
  /\ pc \in {"returned", "raised"} => CleanupRan
  /\ failure.step # "none" => pc \in {"except", "finally", "returned", "raised"}
  /\ pc # "raised"

\* C4, amended: the same, with only an exception that is an Exception
\* swallowed; a BaseException that is not one (KeyboardInterrupt, SystemExit)
\* reaches the caller, after cleanup.
C4_CleanupAndSwallowException ==
  /\ pc \in {"returned", "raised"} => CleanupRan
  /\ failure.step # "none" => pc \in {"except", "finally", "returned", "raised"}
  /\ IsException(failure.exc) => pc # "raised"
  /\ failure.exc = "none" => pc # "raised"

\* learn() has returned after the Update step of a later epoch raised an
\* Exception, with a wandb run attached.
C4_Witness ==
  /\ pc = "returned"
  /\ failure = [step |-> "update", exc |-> "Exception"]
  /\ epoch >= 1
  /\ wandb_run # <<>>
  /\ cleanups.finish >= 1

\* C7 (checkpoint key equals cumulative timesteps): the name of every
\* checkpoint directory the loop wrote is the decimal of the
\* cumulative_timesteps in its BOOK_KEEPING_VARS.json.
C7_KeyIsCumulativeTimesteps ==
  \A name \in DOMAIN fs :
    fs[name].book # <<>> =>
      int(name) = json_load(fs[name].book[1]).cumulative_timesteps

\* The epochs whose Checkpoint step has run.
CheckpointedEpochs ==
  {e \in first_epoch..epoch : e < epoch \/ pc = "increment"}

\* C8 (checkpoint trigger): the Checkpoint step of an epoch saves if and only
\* if epoch * ts_per_epoch is a multiple of save_every_ts, epoch 0 included,
\* under the key epoch * ts_per_epoch; no other save happens.
C8_CheckpointTrigger ==
  /\ last_ckpt # <<>> =>
       LET c == last_ckpt[1]
       IN  /\ c.saved <=> (c.epoch * cfg.ts_per_epoch) % cfg.save_every_ts = 0
           /\ c.saved => /\ c.key = c.epoch * cfg.ts_per_epoch
                         /\ last_op = [op |-> "save", dir |-> str(c.key)]
  /\ saved_keys =
       {e * cfg.ts_per_epoch :
          e \in {d \in CheckpointedEpochs :
                   (d * cfg.ts_per_epoch) % cfg.save_every_ts = 0}}

\* The Checkpoint step of epoch 2 saved and that of epoch 1 did not.
C8_Witness ==
  /\ last_ckpt # <<>>
  /\ last_ckpt[1].saved
  /\ last_ckpt[1].epoch = 2
  /\ Cardinality(saved_keys) = 2

\* C17 (minibatch field alignment): every minibatch returned by
\* get_all_batches_shuffled has five fields, and for every position j its
\* action, log_prob, state, value and advantage are those of one and the same
\* resident index.
C17_FieldAlignment ==
  ret.op = "shuffle" =>
    \A i \in 1..Len(ret.batches) :
      /\ Len(ret.batches[i]) = 5
      /\ \A j \in 1..ret.batch_size :
           \E r \in 1..Len(buf.actions) :
             /\ ret.batches[i][1][j] = buf.actions[r]
             /\ ret.batches[i][2][j] = buf.log_probs[r]
             /\ ret.batches[i][3][j] = buf.states[r]
             /\ ret.batches[i][4][j] = buf.values[r]
             /\ ret.batches[i][5][j] = buf.advantages[r]

\* A shuffle returned a minibatch of two or more transitions that are not in
\* resident order.
C17_Witness ==
  /\ ret.op = "shuffle"
  /\ ret.batch_size >= 2
  /\ Len(ret.batches) >= 1
  /\ ret.batches[1][1] # SubSeq(buf.actions, 1, ret.batch_size)
  /\ ret.batches[1][5] # SubSeq(buf.advantages, 1, ret.batch_size)

\* C18 (shuffle leaves the buffer unchanged): a call of
\* get_all_batches_shuffled changes nothing of the buffer but the state of
\* its generator: the nine sequences, max_size, seed and device stay as they
\* were, for any batch_size and on every successive call.
C18_ShuffleFrame ==
  [][ret'.op = "shuffle" => buf' = [buf EXCEPT !.rng = buf'.rng]]_vars

\* A second successive shuffle of a buffer of two or more transitions
\* returned them out of resident order, and the generator has moved.
C18_Witness ==
  /\ ret.op = "shuffle"
  /\ calls >= 2
  /\ Len(buf.actions) >= 2
  /\ Len(ret.batches) >= 1
  /\ ret.batches[1][1] # SubSeq(buf.actions, 1, ret.batch_size)
  /\ buf.rng # RandomState(buf.seed)

\* C16 (zero collection time is a loop failure): when Collect reported a
\* collection time of zero, the epoch never gets past its Report step, which
\* fails with ZeroDivisionError; the metrics of that epoch are not
\* dispatched, its checkpoint is not saved, the epoch counter is not
\* incremented, and learn() runs cleanup and returns.
C16_ZeroCollectionTime ==
  /\ (collected.steps > 0 /\ collected.time = 0) =>
       pc \in {"integrate", "submit", "update", "report",
               "except", "finally", "returned", "raised"}
  /\ failure = [step |-> "report", exc |-> "ZeroDivisionError"] =>
       /\ collected.time = 0
       /\ pc \in {"except", "finally", "returned"}
       /\ Len(sink) = epoch
       /\ cumulative_model_updates = epoch + 1
       /\ last_ckpt # <<>> => last_ckpt[1].epoch = epoch - 1
       /\ saved_keys \subseteq {e * cfg.ts_per_epoch : e \in 0..(epoch - 1)}
       /\ pc = "returned" => CleanupRan

\* learn() has returned after the Report step of a later epoch failed on a
\* collection time of zero; the earlier epoch reported and saved.
C16_Witness ==
  /\ pc = "returned"
  /\ failure = [step |-> "report", exc |-> "ZeroDivisionError"]
  /\ epoch >= 1
  /\ Len(sink) >= 1
  /\ saved_keys # {}

\* C19 (cleanup runs exactly once per learn()): when learn() is left, after
\* the timestep limit was reached or after an exception, the tracking run was
\* finished once, the collector released once and the buffer cleared once.
C19_CleanupExactlyOnce ==
  pc \in {"returned", "raised"} =>
    /\ wandb_run # <<>> => cleanups.finish = 1
    /\ cleanups.agent = 1
    /\ cleanups.clear = 1

\* C11 (value function loss sentinel): the report of an epoch of index 0
\* carries NaN as its value function loss whatever ppo_learner.learn
\* returned, the report of an epoch of index 1 or more carries the returned
\* value, and the other metrics of ppo_learner.learn are in the report as
\* returned, in every epoch.
C11_ValueFunctionLossSentinel ==
  [][(pc = "report" /\ pc' = "checkpoint") =>
       /\ Len(sink') = Len(sink) + 1
       /\ SubSeq(sink', 1, Len(sink)) = sink
       /\ sink'[Len(sink')].value_function_loss =
            IF epoch = 0 THEN <<>> ELSE ppo_report[1].vf_loss
       /\ ppo_report[1].vf_loss # <<>>
       /\ sink'[Len(sink')].other = ppo_report[1].other]_vars

\* Epoch 0 reported NaN and epoch 1 reported a value.
C11_Witness ==
  /\ Len(sink) >= 2
  /\ sink[1].value_function_loss = <<>>
  /\ sink[2].value_function_loss # <<>>
  /\ epoch >= 1

\* The positions _learn goes through in an epoch, in order.
EpochOrder ==
  <<"collect", "integrate", "submit", "update", "report", "checkpoint",
    "increment">>

\* C12 (epoch step ordering): within an epoch the steps run in the order
\* Collect, Integrate (the RunningStat's increment, then the buffer's
\* submit), Update, Report, Checkpoint, each once and each after the one
\* before it has completed; the epoch counter goes up by exactly 1 after the
\* Checkpoint step and changes at no other time.
C12_StepOrdering ==
  [][/\ (pc' # pc /\ pc' \in Range(EpochOrder)) =>
          \/ pc' = "collect" /\ pc = "loop"
          \/ \E i \in 1..(Len(EpochOrder) - 1) :
               pc = EpochOrder[i] /\ pc' = EpochOrder[i + 1]
     /\ (pc = "collect" /\ pc' = "integrate") =>
          /\ cumulative_timesteps' > cumulative_timesteps
          /\ UNCHANGED <<return_stats, buf, cumulative_model_updates, sink, fs>>
     /\ (pc = "integrate" /\ pc' = "submit") =>
          /\ return_stats'.count = return_stats.count + collected.steps
          /\ UNCHANGED <<buf, cumulative_timesteps, cumulative_model_updates,
                         sink, fs>>
     /\ (pc = "submit" /\ pc' = "update") =>
          /\ buf'.truncated = buf.truncated \o
               [i \in 1..collected.steps |-> next_id + i - 1]
          /\ UNCHANGED <<return_stats, cumulative_timesteps,
                         cumulative_model_updates, sink, fs>>
     /\ (pc = "update" /\ pc' = "report") =>
          /\ cumulative_model_updates' = cumulative_model_updates + 1
          /\ UNCHANGED <<return_stats, cumulative_timesteps, sink, fs>>
     /\ (pc = "report" /\ pc' = "checkpoint") =>
          /\ Len(sink') = Len(sink) + 1
          /\ UNCHANGED <<return_stats, buf, cumulative_timesteps,
                         cumulative_model_updates, fs>>
     /\ (pc = "checkpoint" /\ pc' = "increment") =>
          UNCHANGED <<return_stats, buf, cumulative_timesteps,
                      cumulative_model_updates, sink>>
     /\ pc = "increment" => pc' = "loop"
     /\ epoch' # epoch => pc = "increment" /\ epoch' = epoch + 1
     /\ fs' # fs => pc = "checkpoint"]_vars

\* The third epoch has reached its Checkpoint step.
C12_Witness ==
  /\ pc = "checkpoint"
  /\ epoch = 2
  /\ Len(sink) = 3
  /\ cumulative_model_updates = 3

\* C13 (loop guard and termination): a Collect step starts only with the
\* collector's cumulative timesteps strictly below timestep_limit, so that a
\* Learner resumed at or above the limit runs no epoch; and when every
\* Collect returns with at least one timestep more and no step is
\* interrupted, learn() once called leaves the loop and runs cleanup.
C13_LoopGuardAndTermination ==
  /\ [](pc = "collect" => cumulative_timesteps < cfg.timestep_limit)
  /\ []((pc = "loop" /\ epoch = first_epoch
           /\ cumulative_timesteps >= cfg.timestep_limit) =>
          (sink = <<>> /\ collected = NoCollected))
  /\ (pc = "loop") ~> (pc = "returned" /\ cleanups.clear >= 1)

\* learn() returned on a Learner resumed from the checkpoint of the epoch that
\* reached the limit: it ran no epoch.
C13_Witness ==
  /\ pc = "returned"
  /\ last_op.op = "load"
  /\ cumulative_timesteps >= cfg.timestep_limit
  /\ epoch = first_epoch
  /\ sink = <<>>
  /\ cleanups.clear >= 1

\* The bookkeeping of a Learner that has loaded nothing and run nothing.
InitialBookState ==
  [cumulative_timesteps     |-> 0,
   average_reward           |-> <<>>,
   cumulative_model_updates |-> 0,
   return_stats             |-> NewRunningStat,
   epoch                    |-> 0]

\* C14 (load of a missing checkpoint is fatal before training): constructed
\* with a checkpoint_load_folder that does not exist, load fails its
\* assertion with the bookkeeping still at its initial values, construction
\* ends with that error, and nothing runs afterwards.
C14_MissingCheckpointIsFatal ==
  [][/\ (/\ pc = "init"
         /\ cfg.checkpoint_load_folder # <<>>
         /\ cfg.checkpoint_load_folder[1] \notin DOMAIN fs) =>
          /\ pc' = "aborted"
          /\ failure' = [step |-> "load", exc |-> "AssertionError"]
          /\ BookState = InitialBookState
          /\ BookState' = InitialBookState
          /\ UNCHANGED <<fs, buf, sink, collected, wandb_run>>
     /\ pc # "aborted"]_vars

\* Construction was given the name of a checkpoint that is not in a folder
\* that holds another one, and has ended with load's AssertionError.
C14_Witness ==
  /\ pc = "aborted"
  /\ failure = [step |-> "load", exc |-> "AssertionError"]
  /\ cfg.checkpoint_load_folder # <<>>
  /\ DOMAIN fs # {}
  /\ cfg.checkpoint_load_folder[1] \notin DOMAIN fs

\* C15 (tracking session resume): when the loaded checkpoint's record carries
\* a run id and load_wandb is true, the Learner's run after construction is
\* the one resumed with the recorded id, project, entity and group, and no
\* new run is created, log_to_wandb or not; a new run is created exactly when
\* log_to_wandb is true, no run was passed in and none was resumed.
C15_TrackingResume ==
  [][(pc = "init" /\ pc' = "constructed") =>
       LET asked   == cfg.checkpoint_load_folder # <<>>
           d       == json_load(fs[cfg.checkpoint_load_folder[1]].book[1])
           resumed == /\ asked
                      /\ "wandb_run_id" \in DOMAIN d
                      /\ cfg.load_wandb
           created == cfg.log_to_wandb /\ wandb_run = <<>> /\ ~resumed
       IN  /\ resumed =>
                wandb_run' = <<[id      |-> d.wandb_run_id,
                                project |-> d.wandb_project,
                                entity  |-> d.wandb_entity,
                                group   |-> d.wandb_group]>>
           /\ created <=> wandb_run' = <<new_run>>
           /\ (~resumed /\ ~created) => wandb_run' = wandb_run]_vars

\* A Learner constructed with log_to_wandb and load_wandb from a checkpoint
\* that records a run has that run, not a new one.
C15_Witness ==
  /\ pc = "constructed"
  /\ cfg.log_to_wandb
  /\ cfg.load_wandb
  /\ last_op.op = "load"
  /\ wandb_run = <<earlier_run>>

\* A complete checkpoint: a directory that holds its bookkeeping record.
HasCompleteCheckpoint(f) == \E n \in DOMAIN f : f[n].book # <<>>

\* C20 (a complete checkpoint survives a failed save): with
\* n_checkpoints_to_keep >= 1 and a complete checkpoint in the save folder
\* when save(k) starts with a new key k, a complete checkpoint is in the
\* folder at every point of save: after the directory is created, after the
\* retention step, after the model is saved and after the record is written.
C20_CompleteCheckpointSurvives ==
  [][(/\ cfg.n_checkpoints_to_keep >= 1
      /\ HasCompleteCheckpoint(fs)
      /\ last_op'.op \in {"save", "save_failed"}
      /\ last_op'.dir \notin DOMAIN fs) =>
       HasCompleteCheckpoint(fs')]_vars

\* C21 (no epoch index is run twice across a resume): the first epoch of a
\* Learner that loaded the checkpoint of epoch e has index e + 1; at the
\* start of every epoch the epoch index is the number of Collect steps
\* already made (one model update each); and the resumed Learner does not
\* save under the key of the checkpoint it loaded.
C21_NoEpochTwice ==
  /\ (pc = "collect" /\ last_op.op = "load") =>
       epoch = json_load(fs[last_op.dir].book[1]).epoch + 1
  /\ pc = "collect" => epoch = cumulative_model_updates
  /\ (cfg.checkpoint_load_folder # <<>> /\ pc \notin {"init", "aborted"}) =>
       int(cfg.checkpoint_load_folder[1]) \notin saved_keys

\* C22 (the checkpoint just saved exists): when save(k) has returned,
\* directory k is in the save folder and holds the model and the bookkeeping
\* record of that call, for every n_checkpoints_to_keep >= 0 and wherever k
\* lies among the keys present.
C22_SavedCheckpointExists ==
  last_op.op = "save" =>
    /\ last_op.dir \in DOMAIN fs
    /\ fs[last_op.dir].model
    /\ fs[last_op.dir].book # <<>>
    /\ load_book(json_load(fs[last_op.dir].book[1])) = BookState

\* save(5) has returned on a Learner that keeps one checkpoint and had the
\* checkpoint 10: the retention step removed directory 5 itself, and it is
\* there with its record.
C22_Witness ==
  /\ last_op = [op |-> "save", dir |-> str(KeyStep)]
  /\ cfg.n_checkpoints_to_keep = 1
  /\ DOMAIN fs = {str(KeyStep), str(2 * KeyStep)}
  /\ fs[str(KeyStep)].book # <<>>
  /\ epoch >= 1

====
